---- MODULE Spec2Model ----
(***************************************************************************)
(* A model of the client/server synchronisation layer: the NetClient peer  *)
(* protocol (message multiplexing, the one-slot parity-based reliable      *)
(* message scheme, client frames and server frames), the command and       *)
(* snapshot rings it writes, and the transport events that drive the       *)
(* connection state.                                                       *)
(*                                                                         *)
(* NetClient is instantiated at both ends of a connection: `client` is the *)
(* end that sends client frames, `server` the end that receives them.      *)
(*                                                                         *)
(* An optional value (a TypeScript `T | undefined`) is a sequence of       *)
(* length 0 or 1: <<>> is undefined, <<x>> is x.                           *)
(***************************************************************************)
EXTENDS Integers, Sequences, FiniteSets, TLC

VARIABLES
    client,         \* the NetClient of the client end, a record of its fields
    server,         \* the NetClient of the server end, a record of its fields
    sent,           \* packets the client handed to channel.send; any may arrive
    sentServer,     \* packets the server handed to channel.send; any may arrive
    received,       \* tags of the packets the server's channel has received
    receivedClient, \* tags of the packets the client's channel has received
    isOpen,         \* WebUdpSocket.isOpen of the client's socket
    dataChannels,   \* readyState of every data channel given to setDataChannel
    sendResult,     \* outcome of the last WebUdpSocket.send of the client's socket
    handed,         \* number of buffers the socket has handed to its data channel
    clock,          \* the Clock, a record of its fields
    snapshots,      \* the SnapshotManager: its buffer and latestFrame
    shown,          \* history: the last getSnapshot since the ring was written
    clockLog,       \* history: whether the clock was synchronised, the step queued
    clients,        \* NetModuleServer.clients: id and state of every NetClient
    broadcasts      \* history: the clients the last broadcast sent to

vars == << client, server, sent, sentServer, received, receivedClient, isOpen,
           dataChannels, sendResult, handed, clock, snapshots, shown,
           clockLog, clients, broadcasts >>

socketVars == << isOpen, dataChannels, sendResult, handed >>

channelVars == << sent, sentServer, received, receivedClient >>

simVars == << clock, snapshots, shown, clockLog >>

moduleVars == << clients, broadcasts >>

netVars == << client, server, channelVars, socketVars, moduleVars >>

-----------------------------------------------------------------------------
(* Bounds of the model *)

\* frames run 0 .. MaxFrame
MaxFrame == 3
\* reliable messages issued by transmitVisibilityChange
MaxMsgs == 3
\* visibility changes the receiver may apply before the model stops delivering
MaxApplied == 4
\* capacity of the command ring and of the snapshot ring
Capacity == 3
\* data channels the peer may open on one socket
MaxChannels == 2
\* largest repeat count of a client frame arriving from the wire
MaxCount == 2
\* buffers handed to a data channel
MaxSend == 3
\* the platform time runs 0 .. MaxTime (ms)
MaxTime == 24
\* the simulation runs while simFrame is below MaxSimFrame
MaxSimFrame == 5

\* the backlog of sendClientFrame: the command ring holds BacklogCapacity
\* frames, the frames are 0 .. MaxBacklogFrame, MaxBuilt packets are built
BacklogCapacity == 8

MaxBacklogFrame == 7

MaxBuilt == 1

\* with frame numbers that restart, at most MaxPackets packets are sent
MaxPackets == 2

\* at most MaxClients clients join
MaxClients == 3

-----------------------------------------------------------------------------
(* Program constants *)

ServerFrame == 0
ClientFrame == 1
VisChange == 2
MsgIdCount == 3
kMsgIdMask == 7
kParityShift == 3
kCountShift == 4
kVisibleBits == 240
kMaxBacklog == 5

kIsMsgIdReliable == << FALSE, FALSE, TRUE >>

\* Clock: the initial simDt and renderTimeDelay, and what syncToServerTime adds
kInitialSimDt == 16
kInitialRenderTimeDelay == 100
kSyncLead == 50
kSignificandBits == 53

Free == "Free"
Connected == "Connected"
Disconnected == "Disconnected"

CmdVals == {0, 1}

Max(a, b) == IF a >= b THEN a ELSE b

RECURSIVE Pow2(_)
Pow2(n) == IF n = 0 THEN 1 ELSE 2 * Pow2(n - 1)

-----------------------------------------------------------------------------
(* The ID byte *)

\* idByte & kMsgIdMask
MsgIdOf(idByte) == idByte % (kMsgIdMask + 1)

\* (idByte >> kParityShift) & 1
ParityOf(idByte) == (idByte \div Pow2(kParityShift)) % 2

\* idByte >> 4
CountOf(idByte) == idByte \div Pow2(kCountShift)

\* idByte & ~kMsgIdMask: every bit of the byte above the message id
AboveMsgId(idByte) == idByte - (idByte % (kMsgIdMask + 1))

\* kIsMsgIdReliable[msgId]; an index outside the table reads undefined, which is falsy
IsReliable(msgId) == msgId < MsgIdCount /\ kIsMsgIdReliable[msgId + 1]

\* the byte transmitVisibilityChange builds
VisBits(visible, parity) ==
    (IF visible THEN kVisibleBits ELSE 0)
        + (VisChange % (kMsgIdMask + 1))
        + (parity % 2) * Pow2(kParityShift)

\* the boolean receiveVisibilityChange reads from the byte
DecodeVisible(idByte) == AboveMsgId(idByte) > 0

-----------------------------------------------------------------------------
(* CommandRing: UserCommandBuffer *)

\* a command ring of the given capacity with nothing written
NewCommands(capacity) ==
    [slots |-> [i \in 0 .. capacity - 1 |-> << >>], last |-> << >>,
     capacity |-> capacity]

EmptyCommands == NewCommands(Capacity)

\* setUserCommand: writes slot frame mod capacity unless this frame is already there
SetUserCommand(buf, cmd) ==
    LET idx == cmd.frame % buf.capacity
    IN  IF buf.slots[idx] # << >> /\ buf.slots[idx][1].frame = cmd.frame
        THEN buf
        ELSE [buf EXCEPT !.slots[idx] = << cmd >>, !.last = << cmd >>]

\* getUserCommand(frame): the slot's command when its frame tag is the query
GetUserCommandAt(buf, frame) ==
    LET slot == buf.slots[frame % buf.capacity]
    IN  IF slot # << >> /\ slot[1].frame = frame THEN slot ELSE << >>

\* getUserCommand(): the most recently written command
GetLastUserCommand(buf) == buf.last

-----------------------------------------------------------------------------
(* SnapshotRing as NetClient uses it: setSnapshot *)

EmptySnapshots ==
    [slots |-> [i \in 0 .. Capacity - 1 |-> << >>], latestFrame |-> << >>]

SetSnapshot(ring, snap) ==
    [slots |-> [ring.slots EXCEPT ![snap.frame % Capacity] = << snap >>],
     latestFrame |-> IF ring.latestFrame = << >>
                     THEN << snap.frame >>
                     ELSE << Max(ring.latestFrame[1], snap.frame) >>]

-----------------------------------------------------------------------------
(* Wire messages.  A packet is the sequence of its messages; a message is   *)
(* its ID byte, its frame number and its body (the commands of a client     *)
(* frame, the state of a server frame).  id is history: the index in issued *)
(* of the reliable payload a VisChange byte was built from.                 *)

Message(idByte, frame, body, id) ==
    [idByte |-> idByte, frame |-> frame, body |-> body, id |-> id]

Packet(tag, data) == [tag |-> tag, data |-> data]

-----------------------------------------------------------------------------
(* NetClient *)

\* a NetClient after construction.  issued, applied, delivered, lastVis, warned
\* and gotCommand are history: the flags given to transmitVisibilityChange, the
\* visibility changes receiveVisibilityChange logged as new, the ids of all the
\* reliable payloads it was handed, what it decoded during the last onMessage,
\* whether the last onMessage warned of an unknown message, and the outcome of
\* the last getUserCommand.
NewNetClient ==
    [state |-> Free,
     lastRequestedFrame |-> -1,
     lastReceivedFrame |-> -1,
     lastTransmittedFrame |-> -1,
     lastAcknowledgedFrame |-> -1,
     snapshot |-> EmptySnapshots,
     userCommands |-> EmptyCommands,
     reliableBuf |-> << >>,
     reliableFrame |-> << >>,
     reliableSendParity |-> 0,
     reliableRecvParity |-> 0,
     issued |-> << >>,
     applied |-> << >>,
     delivered |-> {},
     lastVis |-> << >>,
     warned |-> FALSE,
     gotCommand |-> << >>]

-----------------------------------------------------------------------------
(* NetClient, receiving *)

RECURSIVE BufferCommandsForward(_, _, _, _)
\* a receiveClientFrame that tags the i-th command with frame + i
BufferCommandsForward(buf, msg, i, count) ==
    IF i >= count
    THEN buf
    ELSE BufferCommandsForward(
             SetUserCommand(buf, [frame |-> msg.frame + i, val |-> msg.body[i + 1]]),
             msg, i + 1, count)

RECURSIVE BufferCommands(_, _, _, _)
\* the loop of receiveClientFrame: the i-th command is for frame - i
BufferCommands(buf, msg, i, count) ==
    IF i >= count
    THEN buf
    ELSE BufferCommands(
             SetUserCommand(buf, [frame |-> msg.frame - i, val |-> msg.body[i + 1]]),
             msg, i + 1, count)

ReceiveClientFrame(nc, msg) ==
    [nc EXCEPT !.userCommands =
                   BufferCommands(nc.userCommands, msg, 0, CountOf(msg.idByte)),
               !.lastReceivedFrame = msg.frame]

\* a receiveServerFrame that drops a snapshot older than the last one received
ReceiveServerFrameNewest(nc, msg) ==
    IF msg.frame < nc.lastReceivedFrame
    THEN nc
    ELSE [nc EXCEPT !.snapshot =
                        SetSnapshot(nc.snapshot, [frame |-> msg.frame, val |-> msg.body[1]]),
                    !.lastReceivedFrame = msg.frame]

ReceiveServerFrame(nc, msg) ==
    [nc EXCEPT !.snapshot =
                   SetSnapshot(nc.snapshot, [frame |-> msg.frame, val |-> msg.body[1]]),
               !.lastReceivedFrame = msg.frame]

\* a receiveVisibilityChange that logs the change whether or not it is to be ignored
ReceiveVisibilityChangeAlways(nc, msg, ignore) ==
    LET seen == [id |-> msg.id, bits |-> msg.idByte,
                 visible |-> DecodeVisible(msg.idByte), ignore |-> ignore]
    IN  [nc EXCEPT !.lastVis = << seen >>,
                   !.delivered = nc.delivered \cup {msg.id},
                   !.applied = Append(nc.applied, seen)]

ReceiveVisibilityChange(nc, msg, ignore) ==
    LET seen == [id |-> msg.id, bits |-> msg.idByte,
                 visible |-> DecodeVisible(msg.idByte), ignore |-> ignore]
    IN  [nc EXCEPT !.lastVis = << seen >>,
                   !.delivered = nc.delivered \cup {msg.id},
                   !.applied = IF ignore THEN nc.applied ELSE Append(nc.applied, seen)]

RECURSIVE OnMessageLoopSkipping(_, _, _)
\* an onMessage that steps over a message of unknown kind and goes on
OnMessageLoopSkipping(nc, data, offset) ==
    IF offset > Len(data)
    THEN nc
    ELSE LET msg == data[offset]
             msgId == MsgIdOf(msg.idByte)
             reliableParity == ParityOf(msg.idByte)
             ignoreReliable == reliableParity # nc.reliableRecvParity
             nc1 == IF IsReliable(msgId) /\ ~ignoreReliable
                    THEN [nc EXCEPT !.reliableRecvParity = 1 - nc.reliableRecvParity]
                    ELSE nc
         IN  CASE msgId = ServerFrame ->
                      OnMessageLoopSkipping(ReceiveServerFrame(nc1, msg), data, offset + 1)
               [] msgId = ClientFrame ->
                      OnMessageLoopSkipping(ReceiveClientFrame(nc1, msg), data, offset + 1)
               [] msgId = VisChange ->
                      OnMessageLoopSkipping(
                          ReceiveVisibilityChange(nc1, msg, ignoreReliable),
                          data, offset + 1)
               [] OTHER ->
                      OnMessageLoopSkipping([nc1 EXCEPT !.warned = TRUE], data, offset + 1)

RECURSIVE OnMessageLoop(_, _, _)
\* the while loop of onMessage, from message number offset of the packet
OnMessageLoop(nc, data, offset) ==
    IF offset > Len(data)
    THEN nc
    ELSE LET msg == data[offset]
             msgId == MsgIdOf(msg.idByte)
             reliableParity == ParityOf(msg.idByte)
             ignoreReliable == reliableParity # nc.reliableRecvParity
             nc1 == IF IsReliable(msgId) /\ ~ignoreReliable
                    THEN [nc EXCEPT !.reliableRecvParity = 1 - nc.reliableRecvParity]
                    ELSE nc
         IN  CASE msgId = ServerFrame ->
                      OnMessageLoop(ReceiveServerFrame(nc1, msg), data, offset + 1)
               [] msgId = ClientFrame ->
                      OnMessageLoop(ReceiveClientFrame(nc1, msg), data, offset + 1)
               [] msgId = VisChange ->
                      OnMessageLoop(ReceiveVisibilityChange(nc1, msg, ignoreReliable),
                                    data, offset + 1)
               [] OTHER -> [nc1 EXCEPT !.warned = TRUE]

OnMessage(nc, data) ==
    OnMessageLoop([nc EXCEPT !.lastVis = << >>, !.warned = FALSE], data, 1)

\* getUserCommand(frame): the frame's command, else the most recent one; the
\* assertDefined fails when there is neither
GetUserCommand(nc, frame) ==
    LET cmd == GetUserCommandAt(nc.userCommands, frame)
        use == IF cmd # << >> THEN cmd ELSE GetLastUserCommand(nc.userCommands)
    IN  [nc EXCEPT !.lastRequestedFrame = frame,
                   !.gotCommand = << [failed |-> use = << >>, cmd |-> use] >>]

-----------------------------------------------------------------------------
(* NetClient, sending *)

TransmitVisibilityChange(nc, visible) ==
    [nc EXCEPT !.reliableBuf =
                   Append(nc.reliableBuf,
                          [bits |-> VisBits(visible, nc.reliableSendParity),
                           id |-> Len(nc.issued) + 1]),
               !.reliableSendParity = 1 - nc.reliableSendParity,
               !.issued = Append(nc.issued, visible)]

RECURSIVE BacklogFromSkipping(_, _, _)
\* a loop of sendClientFrame that steps over a missing frame and goes on
BacklogFromSkipping(buf, i, oldestCmdFrame) ==
    IF i < oldestCmdFrame
    THEN << >>
    ELSE (IF GetUserCommandAt(buf, i) = << >>
          THEN << >>
          ELSE << GetUserCommandAt(buf, i)[1].val >>)
             \o BacklogFromSkipping(buf, i - 1, oldestCmdFrame)

RECURSIVE BacklogFrom(_, _, _)
\* the loop of sendClientFrame: the commands of frames i, i - 1, ... down to
\* oldestCmdFrame, stopping at the first frame the buffer does not hold
BacklogFrom(buf, i, oldestCmdFrame) ==
    IF i < oldestCmdFrame \/ GetUserCommandAt(buf, i) = << >>
    THEN << >>
    ELSE << GetUserCommandAt(buf, i)[1].val >> \o BacklogFrom(buf, i - 1, oldestCmdFrame)

\* the message sendClientFrame writes
SendClientFrame(nc, frame) ==
    LET oldestCmdFrame == Max(Max(nc.lastAcknowledgedFrame, frame - kMaxBacklog), 0)
        cmds == BacklogFrom(nc.userCommands, frame, oldestCmdFrame)
    IN  Message(ClientFrame + Len(cmds) * Pow2(kCountShift), frame, cmds, 0)

\* the reliable payload transmitClientFrame writes ahead of the client frame
ReliablePrefix(nc) ==
    IF nc.reliableBuf # << >>
    THEN << Message(nc.reliableBuf[1].bits, 0, << >>, nc.reliableBuf[1].id) >>
    ELSE << >>

\* transmitClientFrame: the NetClient after the call
TransmitClientFrame(nc, frame, val) ==
    [nc EXCEPT !.userCommands = SetUserCommand(nc.userCommands, [frame |-> frame, val |-> val]),
               !.reliableFrame = IF nc.reliableBuf # << >> /\ nc.reliableFrame = << >>
                                 THEN << frame >>
                                 ELSE nc.reliableFrame,
               !.lastTransmittedFrame = frame]

\* transmitClientFrame: the packet it hands to channel.send, tagged with the frame
ClientFramePacket(nc, frame, val) ==
    Packet(frame,
           ReliablePrefix(nc)
               \o << SendClientFrame(
                         [nc EXCEPT !.userCommands =
                              SetUserCommand(nc.userCommands, [frame |-> frame, val |-> val])],
                         frame) >>)

\* transmitServerFrame: the NetClient after the call
TransmitServerFrame(nc, snap) ==
    [nc EXCEPT !.snapshot = SetSnapshot(nc.snapshot, snap),
               !.lastTransmittedFrame = snap.frame]

\* transmitServerFrame: the packet it hands to channel.send
ServerFramePacket(snap) ==
    Packet(snap.frame, << Message(ServerFrame, snap.frame, << snap.val >>, 0) >>)

\* onAck without the comparison of the tag with reliableFrame
OnAckAnyTag(nc, tag) ==
    LET retire == nc.reliableBuf # << >>
    IN  [nc EXCEPT !.lastAcknowledgedFrame = Max(nc.lastAcknowledgedFrame, tag),
                   !.reliableBuf = IF retire THEN Tail(nc.reliableBuf) ELSE nc.reliableBuf,
                   !.reliableFrame = IF retire THEN << >> ELSE nc.reliableFrame]

\* onAck: the channel reports that the peer has received the packet sent with this tag
OnAck(nc, tag) ==
    LET retire == nc.reliableBuf # << >> /\ nc.reliableFrame # << >>
                      /\ tag >= nc.reliableFrame[1]
    IN  [nc EXCEPT !.lastAcknowledgedFrame = Max(nc.lastAcknowledgedFrame, tag),
                   !.reliableBuf = IF retire THEN Tail(nc.reliableBuf) ELSE nc.reliableBuf,
                   !.reliableFrame = IF retire THEN << >> ELSE nc.reliableFrame]

\* the handlers initialize registers for the socket's Open and Close events
OnSocketOpen(nc) == [nc EXCEPT !.state = Connected]

OnSocketClose(nc) == [nc EXCEPT !.state = Disconnected]

-----------------------------------------------------------------------------
(* Numbers.  The snapshot times are exact fractions num / den (den > 0, in  *)
(* lowest terms).  The clock's simFrame is a binary64 value, kept bit by    *)
(* bit, because it is the rounded quotient simTime / simDt.                 *)

RECURSIVE Gcd(_, _)
Gcd(a, b) == IF b = 0 THEN a ELSE Gcd(b, a % b)

Abs(a) == IF a < 0 THEN -a ELSE a

\* the fraction n / d, d > 0
Rat(n, d) ==
    LET g == Gcd(Abs(n), d)
    IN  [num |-> n \div g, den |-> d \div g]

Whole(k) == [num |-> k, den |-> 1]

IsWhole(a) == a.den = 1

RatAdd(a, b) == Rat(a.num * b.den + b.num * a.den, a.den * b.den)

RatSub(a, b) == Rat(a.num * b.den - b.num * a.den, a.den * b.den)

RatMul(a, b) == Rat(a.num * b.num, a.den * b.den)

\* a / b, b > 0
RatDiv(a, b) == Rat(a.num * b.den, a.den * b.num)

RatLess(a, b) == a.num * b.den < b.num * a.den

RatLeq(a, b) == a.num * b.den <= b.num * a.den

RatMax(a, b) == IF RatLess(a, b) THEN b ELSE a

\* Math.floor, Math.ceil
Floor(a) == a.num \div a.den

Ceil(a) == -((-a.num) \div a.den)

\* A non-negative binary64 number: int + frac[1]/2 + frac[2]/4 + ..., with no
\* trailing zero in frac and at most kSignificandBits significant bits.
RECURSIVE BitLen(_)
BitLen(n) == IF n = 0 THEN 0 ELSE 1 + BitLen(n \div 2)

LeadingZeros(bits) ==
    LET ones == { i \in 1 .. Len(bits) : bits[i] = 1 }
    IN  IF ones = {} THEN Len(bits)
        ELSE (CHOOSE i \in ones : \A j \in ones : i <= j) - 1

TrimZeros(bits) ==
    LET ones == { i \in 1 .. Len(bits) : bits[i] = 1 }
    IN  IF ones = {} THEN << >>
        ELSE SubSeq(bits, 1, CHOOSE i \in ones : \A j \in ones : j <= i)

Double(int, bits) == [int |-> int, frac |-> TrimZeros(bits)]

\* bits plus one unit in its last place
IncBits(bits) ==
    LET zeros == { i \in 1 .. Len(bits) : bits[i] = 0 }
    IN  IF zeros = {}
        THEN [carry |-> 1, bits |-> [i \in 1 .. Len(bits) |-> 0]]
        ELSE LET p == CHOOSE i \in zeros : \A j \in zeros : j <= i
             IN  [carry |-> 0,
                  bits |-> [i \in 1 .. Len(bits) |->
                               IF i < p THEN bits[i] ELSE IF i = p THEN 1 ELSE 0]]

\* the binary64 value nearest to int + 0.bits, ties to even
RoundToDouble(int, bits) ==
    LET keep == IF int > 0
                THEN kSignificandBits - BitLen(int)
                ELSE LeadingZeros(bits) + kSignificandBits
    IN  IF Len(bits) <= keep
        THEN Double(int, bits)
        ELSE LET kept == SubSeq(bits, 1, keep)
                 half == bits[keep + 1] = 1
                 sticky == \E i \in keep + 2 .. Len(bits) : bits[i] = 1
                 odd == IF keep = 0 THEN int % 2 = 1 ELSE kept[keep] = 1
                 r == IncBits(kept)
             IN  IF half /\ (sticky \/ odd)
                 THEN Double(int + r.carry, r.bits)
                 ELSE Double(int, kept)

\* 2^n modulo d
RECURSIVE Pow2Mod(_, _)
Pow2Mod(n, d) ==
    IF n = 0 THEN 1 % d
    ELSE LET h == Pow2Mod(n \div 2, d)
             sq == (h * h) % d
         IN  IF n % 2 = 0 THEN sq ELSE (2 * sq) % d

\* the first n bits of r / d, r < d, and a last 1 when the quotient goes on
QuotientBits(r, d, n) ==
    [i \in 1 .. n + 1 |->
        LET rem == (r * Pow2Mod(i - 1, d)) % d
        IN  IF i <= n
            THEN IF 2 * rem >= d THEN 1 ELSE 0
            ELSE IF rem # 0 THEN 1 ELSE 0]

\* x / d for whole x >= 0 and d > 0
DoubleDiv(x, d) ==
    RoundToDouble(x \div d,
                  QuotientBits(x % d, d, kSignificandBits + BitLen(d) + 1))

\* a + k for whole k >= 0
DoubleAdd(a, k) == RoundToDouble(a.int + k, a.frac)

\* the whole number the bits spell
RECURSIVE BitsValue(_)
BitsValue(bits) ==
    IF bits = << >> THEN 0
    ELSE IF Len(bits) = 1 THEN bits[1]
    ELSE LET h == Len(bits) \div 2
         IN  BitsValue(SubSeq(bits, 1, h)) * Pow2(Len(bits) - h)
                 + BitsValue(SubSeq(bits, h + 1, Len(bits)))

\* 0.bits * d + carry in the last place, as the whole part and the bits after
\* the point; short runs of bits are multiplied as whole numbers
RECURSIVE TimesBits(_, _, _)
TimesBits(bits, d, carry) ==
    IF Len(bits) <= 16
    THEN LET n == Len(bits)
             v == BitsValue(bits) * d + carry
         IN  [carry |-> v \div Pow2(n),
              bits |-> [i \in 1 .. n |-> (v \div Pow2(n - i)) % 2]]
    ELSE LET h == Len(bits) \div 2
             lo == TimesBits(SubSeq(bits, h + 1, Len(bits)), d, carry)
             hi == TimesBits(SubSeq(bits, 1, h), d, lo.carry)
         IN  [carry |-> hi.carry, bits |-> hi.bits \o lo.bits]

\* a * d for whole d > 0
DoubleMul(a, d) ==
    LET r == TimesBits(a.frac, d, 0)
    IN  RoundToDouble(a.int * d + r.carry, r.bits)

\* the fraction a binary64 value stands for (short fractions only)
ToRat(a) == Rat(a.int * Pow2(Len(a.frac)) + BitsValue(a.frac), Pow2(Len(a.frac)))

-----------------------------------------------------------------------------
(* Clock *)

\* a Clock after construction and initialize
NewClock ==
    [realTime |-> 0,
     simTime |-> 0,
     renderTime |-> 0,
     serverTime |-> -1,
     realDt |-> 0,
     renderDt |-> 0,
     simFrame |-> Double(0, << >>),
     simDt |-> kInitialSimDt,
     renderTimeDelay |-> kInitialRenderTimeDelay,
     paused |-> FALSE,
     speed |-> 1,
     platformTime |-> 0,
     stepDt |-> 0]

ClockZero(c) ==
    [c EXCEPT !.renderTimeDelay = Max(c.renderTimeDelay, c.simDt),
              !.realTime = 0,
              !.simTime = 0,
              !.simFrame = Double(0, << >>)]

ClockSyncToServerTime(c, serverTime) ==
    [c EXCEPT !.serverTime = serverTime,
              !.simTime = serverTime + kSyncLead,
              !.simFrame = DoubleDiv(serverTime + kSyncLead, c.simDt)]

\* a tick that leaves the server time where the last synchronisation put it
ClockTickKeepingServerTime(c, platformTime) ==
    LET platformDt == platformTime - c.platformTime
        realTime == c.realTime + platformDt
    IN  [c EXCEPT !.platformTime = platformTime,
                  !.realDt = platformDt,
                  !.realTime = realTime,
                  !.renderDt = IF c.paused THEN c.stepDt ELSE platformDt * c.speed,
                  !.renderTime = (IF c.serverTime # -1 THEN c.serverTime ELSE realTime)
                                     - c.renderTimeDelay,
                  !.stepDt = 0]

\* a tick that measures the frame from realTime and sets realTime to the platform
\* time
ClockTickFromRealTime(c, platformTime) ==
    LET realDt == platformTime - c.realTime
        serverTime == IF c.serverTime # -1 THEN c.serverTime + realDt ELSE c.serverTime
    IN  [c EXCEPT !.platformTime = platformTime,
                  !.realDt = realDt,
                  !.realTime = platformTime,
                  !.serverTime = serverTime,
                  !.renderDt = IF c.paused THEN c.stepDt ELSE realDt * c.speed,
                  !.renderTime = (IF serverTime # -1 THEN serverTime ELSE platformTime)
                                     - c.renderTimeDelay,
                  !.stepDt = 0]

ClockTick(c, platformTime) ==
    LET platformDt == platformTime - c.platformTime
        serverTime == IF c.serverTime # -1 THEN c.serverTime + platformDt ELSE c.serverTime
        realTime == c.realTime + platformDt
    IN  [c EXCEPT !.platformTime = platformTime,
                  !.realDt = platformDt,
                  !.realTime = realTime,
                  !.serverTime = serverTime,
                  !.renderDt = IF c.paused THEN c.stepDt ELSE platformDt * c.speed,
                  !.renderTime = (IF serverTime # -1 THEN serverTime ELSE realTime)
                                     - c.renderTimeDelay,
                  !.stepDt = 0]

ClockUpdateFixed(c) ==
    [c EXCEPT !.simTime = c.simTime + c.simDt,
              !.simFrame = DoubleAdd(c.simFrame, 1)]

\* set simDt: zero(), then the new step
ClockSetSimDt(c, value) == [ClockZero(c) EXCEPT !.simDt = value]

\* a step that leaves the paused flag as it is
ClockStepKeepingPaused(c, stepDurationMs) ==
    [c EXCEPT !.stepDt = stepDurationMs * c.speed]

ClockStep(c, stepDurationMs) ==
    [c EXCEPT !.paused = TRUE, !.stepDt = stepDurationMs * c.speed]

-----------------------------------------------------------------------------
(* SnapshotManager: the ring written by updateFixed and read by getSnapshot *)

\* a SnapshotManager after construction and initialize: no slot is defined and
\* latestFrame is undefined
NewSnapshotManager ==
    [buffer |-> [i \in 0 .. Capacity - 1 |-> << >>], latestFrame |-> << >>]

\* updateFixed: buffer[simFrame % bufferFrameCount] = { frame, avatar }.  When
\* simFrame is not whole the snapshot lands under a key that is no array index,
\* which no scan of getSnapshot reads.
SnapshotUpdateFixed(m, c, val) ==
    [buffer |-> IF c.simFrame.frac = << >>
                THEN [m.buffer EXCEPT ![c.simFrame.int % Capacity] =
                          << [frame |-> c.simFrame.int, val |-> val] >>]
                ELSE m.buffer,
     latestFrame |-> << ToRat(c.simFrame) >>]

\* buffer[frame % bufferFrameCount] for a whole frame: the remainder of a negative
\* frame is negative in JavaScript, and no element is stored there
BufferAt(m, frame) == IF frame < 0 THEN << >> ELSE m.buffer[frame % Capacity]

\* Math.max(0, latestFrame - bufferFrameCount - 1)
OldestFrame(m) == RatMax(Whole(0), RatSub(m.latestFrame[1], Whole(Capacity + 1)))

RECURSIVE AFrameFrom(_, _)
\* the backward scan for the snapshot before the requested time
AFrameFrom(m, aFrame) ==
    IF RatLeq(OldestFrame(m), Whole(aFrame)) /\ BufferAt(m, aFrame) = << >>
    THEN AFrameFrom(m, aFrame - 1)
    ELSE aFrame

RECURSIVE BFrameFrom(_, _)
\* the scan for the snapshot after the requested time, which also steps backward.
\* Below 0 no slot is defined and bFrame <= latestFrame stays true: the loop
\* never ends, which the result -1 stands for.
BFrameFrom(m, bFrame) ==
    IF bFrame < 0
    THEN -1
    ELSE IF RatLeq(Whole(bFrame), m.latestFrame[1]) /\ BufferAt(m, bFrame) = << >>
         THEN BFrameFrom(m, bFrame - 1)
         ELSE bFrame

\* delerp(a, b, t): where t lies between a and b
Delerp(a, b, t) == RatDiv(RatSub(t, Whole(a)), Whole(b - a))

\* Snapshot.lerp on the one numeric field of the model
SnapshotLerp(a, b, t) ==
    RatAdd(Whole(a.val), RatMul(Whole(b.val - a.val), t))

\* what a call of getSnapshot comes to
Outcome(simTime, returns, aFrame, bFrame, a, b, out) ==
    [query |-> simTime, returns |-> returns, aFrame |-> aFrame, bFrame |-> bFrame,
     a |-> a, b |-> b, out |-> out]

\* getSnapshot(simTime, result): returns is "true", "false" or, when the call
\* does not return, "never"; out is what it wrote to result
GetSnapshot(m, simTime) ==
    IF m.latestFrame = << >>
    THEN Outcome(simTime, "false", Floor(simTime), Ceil(simTime), << >>, << >>, << >>)
    ELSE IF RatLess(simTime, OldestFrame(m))
    THEN Outcome(simTime, "false", Floor(simTime), Ceil(simTime), << >>, << >>, << >>)
    ELSE LET aFrame == AFrameFrom(m, Floor(simTime))
             bFrame == BFrameFrom(m, Ceil(simTime))
             aValid == RatLeq(OldestFrame(m), Whole(aFrame))
             bValid == RatLeq(Whole(bFrame), m.latestFrame[1])
             a == BufferAt(m, aFrame)
             b == BufferAt(m, bFrame)
         IN  IF bFrame < 0
             THEN Outcome(simTime, "never", aFrame, bFrame, << >>, << >>, << >>)
             ELSE IF ~(aValid /\ bValid)
             THEN Outcome(simTime, "false", aFrame, bFrame, a, b, << >>)
             ELSE IF aFrame % Capacity = bFrame % Capacity
             THEN Outcome(simTime, "true", aFrame, bFrame, a, b, << Whole(a[1].val) >>)
             ELSE Outcome(simTime, "true", aFrame, bFrame, a, b,
                          << SnapshotLerp(a[1], b[1], Delerp(aFrame, bFrame, simTime)) >>)

-----------------------------------------------------------------------------
(* Actions *)

\* the client's simulation sends one client frame per tick, frames counting up
TickClient(vals) ==
    /\ client.lastTransmittedFrame < MaxFrame
    /\ \E val \in vals :
          LET frame == client.lastTransmittedFrame + 1
          IN  /\ client' = TransmitClientFrame(client, frame, val)
              /\ sent' = sent \cup {ClientFramePacket(client, frame, val)}
    /\ UNCHANGED << server, sentServer, received, receivedClient, socketVars, simVars, moduleVars >>

\* transmitClientFrame with any of the given frame numbers, while fewer than
\* most packets have been built
TransmitsFrame(frames, vals, most) ==
    /\ Cardinality(sent) < most
    /\ \E frame \in frames, val \in vals :
          /\ client' = TransmitClientFrame(client, frame, val)
          /\ sent' = sent \cup {ClientFramePacket(client, frame, val)}
    /\ UNCHANGED << server, sentServer, received, receivedClient, socketVars, simVars, moduleVars >>

\* the server's simulation sends one server frame per tick, frames counting up
TickServer(vals) ==
    /\ server.lastTransmittedFrame < MaxFrame
    /\ \E val \in vals :
          LET snap == [frame |-> server.lastTransmittedFrame + 1, val |-> val]
          IN  /\ server' = TransmitServerFrame(server, snap)
              /\ sentServer' = sentServer \cup {ServerFramePacket(snap)}
    /\ UNCHANGED << client, sent, received, receivedClient, socketVars, simVars, moduleVars >>

IssueVisibilityChange ==
    /\ Len(client.issued) < MaxMsgs
    /\ \E visible \in BOOLEAN : client' = TransmitVisibilityChange(client, visible)
    /\ UNCHANGED << server, channelVars, socketVars, simVars, moduleVars >>

\* the server's side of the connection queues a reliable message
ServerIssuesVisibilityChange ==
    /\ Len(server.issued) < MaxMsgs
    /\ \E visible \in BOOLEAN : server' = TransmitVisibilityChange(server, visible)
    /\ UNCHANGED << client, channelVars, socketVars, simVars, moduleVars >>

\* the server's channel receives packet p and hands it to onMessage
ServerReceives(p) ==
    /\ Len(server.applied) < MaxApplied
    /\ server' = OnMessage(server, p.data)
    /\ received' = received \cup {p.tag}
    /\ UNCHANGED << client, sent, sentServer, receivedClient, socketVars, simVars, moduleVars >>

\* the client's channel receives packet p and hands it to onMessage
ClientReceives(p) ==
    /\ client' = OnMessage(client, p.data)
    /\ receivedClient' = receivedClient \cup {p.tag}
    /\ UNCHANGED << server, sent, sentServer, received, socketVars, simVars, moduleVars >>

\* the transport may lose, duplicate and reorder: any packet sent may arrive, any time
Deliver == \E p \in sent : ServerReceives(p)

DeliverToClient == \E p \in sentServer : ClientReceives(p)

\* any packet the peer has received may be acknowledged, any time
Acknowledge ==
    /\ \E tag \in received : client' = OnAck(client, tag)
    /\ UNCHANGED << server, channelVars, socketVars, simVars, moduleVars >>

\* the simulation asks the server's NetClient for the command of a frame
RequestCommand ==
    /\ \E frame \in 0 .. MaxFrame : server' = GetUserCommand(server, frame)
    /\ UNCHANGED << client, channelVars, socketVars, simVars, moduleVars >>

\* setDataChannel: the socket takes a data channel and listens to it
SetDataChannel ==
    /\ Len(dataChannels) < MaxChannels
    /\ dataChannels' = Append(dataChannels, "connecting")
    /\ UNCHANGED << client, server, channelVars, isOpen, sendResult, handed, simVars, moduleVars >>

\* dataChannel.onopen: the socket fires Open
DataChannelOpen ==
    /\ \E c \in 1 .. Len(dataChannels) :
          /\ dataChannels[c] = "connecting"
          /\ dataChannels' = [dataChannels EXCEPT ![c] = "open"]
    /\ isOpen' = TRUE
    /\ client' = OnSocketOpen(client)
    /\ UNCHANGED << server, channelVars, sendResult, handed, simVars, moduleVars >>

\* dataChannel.onclose: the socket fires Close
DataChannelClose ==
    /\ \E c \in 1 .. Len(dataChannels) :
          /\ dataChannels[c] \in {"connecting", "open", "closing"}
          /\ dataChannels' = [dataChannels EXCEPT ![c] = "closed"]
    /\ isOpen' = FALSE
    /\ client' = OnSocketClose(client)
    /\ UNCHANGED << server, channelVars, sendResult, handed, simVars, moduleVars >>

\* WebUdpSocket.close: asks the current data channel to close; its close event
\* comes later
SocketClose ==
    /\ dataChannels # << >>
    /\ dataChannels[Len(dataChannels)] \in {"connecting", "open"}
    /\ dataChannels' = [dataChannels EXCEPT ![Len(dataChannels)] = "closing"]
    /\ UNCHANGED << client, server, channelVars, isOpen, sendResult, handed, simVars, moduleVars >>

\* WebUdpSocket.send: hands the buffer to the current data channel when isOpen,
\* and a data channel that is not open refuses it with an exception
SocketSend ==
    /\ handed < MaxSend
    /\ IF isOpen
       THEN IF dataChannels[Len(dataChannels)] = "open"
            THEN sendResult' = "true" /\ handed' = handed + 1
            ELSE sendResult' = "throws" /\ handed' = handed
       ELSE sendResult' = "false" /\ handed' = handed
    /\ UNCHANGED << client, server, channelVars, isOpen, dataChannels, simVars, moduleVars >>

\* a call of getSnapshot has not returned: the thread is in its loop for good
Hung == shown # << >> /\ shown[1].returns = "never"

\* values given to the clock: server times, simulation steps, durations of a
\* display frame and of a forced step (ms)
ServerTimes == {0, 14}

SimDts == {8, 16}

\* steps the debug menu offers, one of them no power of two
MenuSimDts == {8, 16, 24}

TickDts == {8, 16}

StepDurations == {16}

\* values the debug menu gives to speed and renderTimeDelay
Speeds == {1, 2}

RenderTimeDelays == {8}

\* the display loop ticks the clock with the platform's time
ClockTicks ==
    /\ ~Hung
    /\ \E dt \in TickDts :
          /\ clock.platformTime + dt <= MaxTime
          /\ clock' = ClockTick(clock, clock.platformTime + dt)
    /\ clockLog' = [clockLog EXCEPT !.queued = << >>]
    /\ UNCHANGED << netVars, snapshots, shown >>

\* the simulation loop advances the clock by one fixed step
ClockUpdatesFixed ==
    /\ ~Hung
    /\ clock.simFrame.int < MaxSimFrame
    /\ clock' = ClockUpdateFixed(clock)
    /\ UNCHANGED << netVars, snapshots, shown, clockLog >>

ClockSyncs ==
    /\ ~Hung
    /\ \E serverTime \in ServerTimes : clock' = ClockSyncToServerTime(clock, serverTime)
    /\ clockLog' = [clockLog EXCEPT !.synced = TRUE]
    /\ UNCHANGED << netVars, snapshots, shown >>

ClockSetsSimDt(values) ==
    /\ ~Hung
    /\ \E value \in values : clock' = ClockSetSimDt(clock, value)
    /\ UNCHANGED << netVars, snapshots, shown, clockLog >>

\* step(ms); the log keeps ms, the speed, and the paused flag from before the
\* first step since the last tick
ClockSteps ==
    /\ ~Hung
    /\ \E ms \in StepDurations :
          /\ clock' = ClockStep(clock, ms)
          /\ clockLog' = [clockLog EXCEPT !.queued =
                             << [ms |-> ms,
                                 speed |-> clock.speed,
                                 paused |-> IF clockLog.queued = << >>
                                            THEN clock.paused
                                            ELSE clockLog.queued[1].paused] >>]
    /\ UNCHANGED << netVars, snapshots, shown >>

\* the debug menu toggles paused
ClockSetsPaused ==
    /\ clock' = [clock EXCEPT !.paused = ~clock.paused]
    /\ UNCHANGED << netVars, snapshots, shown, clockLog >>

\* the debug menu sets speed
ClockSetsSpeed ==
    /\ \E value \in Speeds : clock' = [clock EXCEPT !.speed = value]
    /\ UNCHANGED << netVars, snapshots, shown, clockLog >>

\* the debug menu sets renderTimeDelay
ClockSetsRenderTimeDelay ==
    /\ \E value \in RenderTimeDelays : clock' = [clock EXCEPT !.renderTimeDelay = value]
    /\ UNCHANGED << netVars, snapshots, shown, clockLog >>

\* values of the avatar state a snapshot records
SnapVals == {0, 10}

\* times asked of getSnapshot: the frames and the half frames up to MaxSimFrame + 1
Queries == { Rat(k, 2) : k \in 0 .. 2 * (MaxSimFrame + 1) }

\* one fixed step of the simulation: the SnapshotManager records the frame, and
\* the clock moves to the next
FixedUpdate ==
    /\ ~Hung
    /\ clock.simFrame.int <= MaxSimFrame
    /\ \E val \in SnapVals : snapshots' = SnapshotUpdateFixed(snapshots, clock, val)
    /\ clock' = ClockUpdateFixed(clock)
    /\ shown' = << >>
    /\ UNCHANGED << netVars, clockLog >>

\* a getSnapshot that records the queried time as the latest frame
QuerySnapshotStoring ==
    /\ ~Hung
    /\ \E simTime \in Queries :
           /\ shown' = << GetSnapshot(snapshots, simTime) >>
           /\ snapshots' = [snapshots EXCEPT !.latestFrame = << simTime >>]
    /\ UNCHANGED << netVars, clock, clockLog >>

\* a call of getSnapshot
QuerySnapshot ==
    /\ ~Hung
    /\ \E simTime \in Queries : shown' = << GetSnapshot(snapshots, simTime) >>
    /\ UNCHANGED << netVars, clock, snapshots, clockLog >>

-----------------------------------------------------------------------------
(* NetModuleServer *)

\* ids the signalling server announces
ClientIds == {1, 2}

\* ClientJoined: a NetClient is created, initialized and pushed
ClientJoined ==
    /\ Len(clients) < MaxClients
    /\ \E clientId \in ClientIds :
           clients' = Append(clients, [id |-> clientId, state |-> Free])
    /\ UNCHANGED << client, server, channelVars, socketVars, simVars, broadcasts >>

\* the transport of a client opens
ClientOpen ==
    /\ \E i \in DOMAIN clients :
           /\ clients[i].state = Free
           /\ clients' = [clients EXCEPT ![i].state = Connected]
    /\ UNCHANGED << client, server, channelVars, socketVars, simVars, broadcasts >>

\* the transport of a client closes
ClientClose ==
    /\ \E i \in DOMAIN clients :
           /\ clients[i].state # Disconnected
           /\ clients' = [clients EXCEPT ![i].state = Disconnected]
    /\ UNCHANGED << client, server, channelVars, socketVars, simVars, broadcasts >>

\* broadcast(data): client.channel.send(data) for every client of the array
Broadcast ==
    /\ broadcasts' = << clients >>
    /\ UNCHANGED << client, server, channelVars, socketVars, simVars, clients >>

-----------------------------------------------------------------------------
(* Specifications *)

Init ==
    /\ client = NewNetClient
    /\ server = NewNetClient
    /\ sent = {}
    /\ sentServer = {}
    /\ received = {}
    /\ receivedClient = {}
    /\ isOpen = FALSE
    /\ dataChannels = << >>
    /\ sendResult = "none"
    /\ handed = 0
    /\ clock = NewClock
    /\ snapshots = NewSnapshotManager
    /\ shown = << >>
    /\ clockLog = [synced |-> FALSE, queued |-> << >>]
    /\ clients = << >>
    /\ broadcasts = << >>

\* the reliable-message protocol from client to server over the lossy channel
Next ==
    \/ TickClient({0})
    \/ IssueVisibilityChange
    \/ Deliver
    \/ Acknowledge

Spec == Init /\ [][Next]_vars

\* the same protocol when the sender keeps sending and the transport keeps
\* delivering: the client ticks while frames remain, the newest packet is
\* eventually delivered and eventually acknowledged; older packets may still be
\* lost, duplicated or arrive late.  A reliable message is issued when none is
\* pending and a frame remains to carry it.
IssueWhenIdle ==
    /\ client.reliableBuf = << >>
    /\ client.lastTransmittedFrame < MaxFrame
    /\ IssueVisibilityChange

DeliverLatest ==
    \E p \in sent : p.tag = client.lastTransmittedFrame /\ ServerReceives(p)

AcknowledgeLatest ==
    /\ client.lastTransmittedFrame \in received
    /\ client' = OnAck(client, client.lastTransmittedFrame)
    /\ UNCHANGED << server, channelVars, socketVars, simVars, moduleVars >>

NextFair ==
    \/ TickClient({0})
    \/ IssueWhenIdle
    \/ Deliver
    \/ Acknowledge

SpecFair ==
    /\ Init
    /\ [][NextFair]_vars
    /\ WF_vars(TickClient({0}))
    /\ WF_vars(DeliverLatest)
    /\ WF_vars(AcknowledgeLatest)

-----------------------------------------------------------------------------
(* Packets from the wire: whatever bytes a peer may send *)

\* frame numbers of arriving client frames: the first frames, and one that shares
\* its ring slots with them
WireFrames == {0, 1, Capacity + 1}

\* every well-formed client frame with a frame of WireFrames and up to MaxCount commands
WireClientFrames ==
    UNION { { Message(ClientFrame + n * Pow2(kCountShift), f, body, 0) :
                  body \in [1 .. n -> CmdVals] } :
            << f, n >> \in WireFrames \X (0 .. MaxCount) }

\* the server's channel receives a packet that holds one client frame
ReceiveClientFrames ==
    \E msg \in WireClientFrames : ServerReceives(Packet(msg.frame, << msg >>))

\* the command ring fed from the wire, and the simulation reading it
NextCmd ==
    \/ ReceiveClientFrames
    \/ RequestCommand

SpecCmd == Init /\ [][NextCmd]_vars

\* the messages of arbitrary packets: a client frame and a server frame for frame
\* 1, reliable bytes of both parities, and bytes whose kind is no MsgId
WireVisChanges == { Message(VisBits(TRUE, parity), 0, << >>, 0) : parity \in 0 .. 1 }

WireUnknown ==
    { Message(kind + parity * Pow2(kParityShift), 0, << >>, 0) :
          << kind, parity >> \in {MsgIdCount, kMsgIdMask} \X (0 .. 1) }

WireMessages ==
    { msg \in WireClientFrames : msg.frame = 1 /\ CountOf(msg.idByte) = 1 }
        \cup { Message(ServerFrame, 1, << val >>, 0) : val \in CmdVals }
        \cup WireVisChanges
        \cup WireUnknown

\* packets of one or two such messages
WireData ==
    { << msg >> : msg \in WireMessages }
        \cup { << m1, m2 >> : << m1, m2 >> \in WireMessages \X WireMessages }

\* the server's channel receives an arbitrary packet
ReceiveFromWire == \E data \in WireData : ServerReceives(Packet(0, data))

NextWire == ReceiveFromWire

SpecWire == Init /\ [][NextWire]_vars

\* frames in both directions over the lossy channel: client frames fill the
\* server's command ring, server frames fill the client's snapshot ring
NextRing ==
    \/ TickClient(CmdVals)
    \/ Deliver
    \/ TickServer({1})
    \/ DeliverToClient

SpecRing == Init /\ [][NextRing]_vars

\* the life of the client's socket: data channels arrive, open and close, and the
\* client sends through the socket
NextConn ==
    \/ SetDataChannel
    \/ DataChannelOpen
    \/ DataChannelClose
    \/ SocketSend
    \/ SocketClose

SpecConn == Init /\ [][NextConn]_vars

\* the clock under every call the loops and the menu make
NextClock ==
    \/ ClockTicks
    \/ ClockUpdatesFixed
    \/ ClockSyncs
    \/ ClockSetsSimDt(MenuSimDts)
    \/ ClockSteps

SpecClock == Init /\ [][NextClock]_vars

\* the clock under the debug menu: paused, speed, simDt, step and
\* renderTimeDelay are set while the display loop ticks
NextMenu ==
    \/ ClockTicks
    \/ ClockSteps
    \/ ClockSetsPaused
    \/ ClockSetsSpeed
    \/ ClockSetsSimDt(MenuSimDts)
    \/ ClockSetsRenderTimeDelay

SpecMenu == Init /\ [][NextMenu]_vars

\* sendClientFrame as a function of the sender's state: the sender has sent the
\* frames of any set held, in rising order, into a ring that holds them all, and
\* has had none or any one of them acknowledged; the command of frame k is k
BacklogFrames == 0 .. MaxBacklogFrame

RECURSIVE CommandsHolding(_, _)
CommandsHolding(held, k) ==
    IF k < 0
    THEN NewCommands(BacklogCapacity)
    ELSE IF k \in held
         THEN SetUserCommand(CommandsHolding(held, k - 1), [frame |-> k, val |-> k])
         ELSE CommandsHolding(held, k - 1)

InitBacklog ==
    /\ \E held \in SUBSET BacklogFrames :
           \E acked \in {-1} \cup held :
               client = [NewNetClient EXCEPT
                             !.userCommands = CommandsHolding(held, MaxBacklogFrame),
                             !.lastTransmittedFrame =
                                 IF held = {} THEN -1
                                 ELSE CHOOSE k \in held : \A j \in held : j <= k,
                             !.lastAcknowledgedFrame = acked]
    /\ server = NewNetClient
    /\ sent = {}
    /\ sentServer = {}
    /\ received = {}
    /\ receivedClient = {}
    /\ isOpen = FALSE
    /\ dataChannels = << >>
    /\ sendResult = "none"
    /\ handed = 0
    /\ clock = NewClock
    /\ snapshots = NewSnapshotManager
    /\ shown = << >>
    /\ clockLog = [synced |-> FALSE, queued |-> << >>]
    /\ clients = << >>
    /\ broadcasts = << >>

\* the command the simulation hands to transmitClientFrame
FreshVals == {-1}

NextBacklog == TransmitsFrame(BacklogFrames, FreshVals, MaxBuilt)

SpecBacklog == InitBacklog /\ [][NextBacklog]_vars

\* the reliable-message protocol when the frame numbers handed to
\* transmitClientFrame repeat or restart
NextFrames ==
    \/ TransmitsFrame(0 .. MaxFrame, {0}, MaxPackets)
    \/ IssueVisibilityChange
    \/ Deliver
    \/ Acknowledge

SpecFrames == Init /\ [][NextFrames]_vars

\* both ends sending: client frames, server frames and reliable messages queued
\* at either end; the client's newest packet may arrive and be acknowledged
NextSend ==
    \/ TickClient({0})
    \/ TickServer({0})
    \/ IssueVisibilityChange
    \/ ServerIssuesVisibilityChange
    \/ DeliverLatest
    \/ AcknowledgeLatest

SpecSend == Init /\ [][NextSend]_vars

\* the server's list of clients under joins, opens, closes and broadcasts
NextServer ==
    \/ ClientJoined
    \/ ClientOpen
    \/ ClientClose
    \/ Broadcast

SpecServer == Init /\ [][NextServer]_vars

\* the snapshot ring: the simulation writes it frame by frame, the clock is
\* synchronised or reset now and then, and getSnapshot reads it
NextSnap ==
    \/ FixedUpdate
    \/ QuerySnapshot
    \/ ClockSyncs
    \/ ClockSetsSimDt(SimDts)

SpecSnap == Init /\ [][NextSnap]_vars

-----------------------------------------------------------------------------
(* The reliable-message scheme *)

\* the reliable byte a packet carries ahead of its frame, if it carries one
ReliableOf(p) ==
    IF MsgIdOf(p.data[1].idByte) = VisChange THEN << p.data[1] >> ELSE << >>

\* C1: a packet whose reliable payload has the parity the receiver expects flips
\* reliableRecvParity and is applied; a packet carrying the payload that was
\* accepted last (same byte, same parity, nothing accepted in between) is decoded
\* but ignored: the applied changes and reliableRecvParity stay as they are.
DuplicateAppliedOnce ==
    [][\A p \in sent :
          (ServerReceives(p) /\ ReliableOf(p) # << >>) =>
              LET bits == ReliableOf(p)[1].idByte
              IN  /\ ParityOf(bits) = server.reliableRecvParity =>
                        /\ server'.reliableRecvParity = 1 - server.reliableRecvParity
                        /\ Len(server'.applied) = Len(server.applied) + 1
                        /\ server'.applied[Len(server'.applied)].bits = bits
                  /\ (server.applied # << >>
                          /\ server.applied[Len(server.applied)].bits = bits) =>
                        /\ server'.reliableRecvParity = server.reliableRecvParity
                        /\ server'.applied = server.applied
                        /\ server'.lastVis # << >>
                        /\ server'.lastVis[1].bits = bits
                        /\ server'.lastVis[1].ignore]_vars

\* C1: a payload has been applied once and a second copy of it has been ignored
DuplicateIgnoredReached ==
    /\ Len(server.applied) = 1
    /\ server.lastVis # << >>
    /\ server.lastVis[1].ignore
    /\ server.lastVis[1].bits = server.applied[1].bits
    /\ server.reliableRecvParity = 1

\* C2: the receiver applies the reliable messages in the order they were issued,
\* each at most once: the i-th change it applies is the i-th message issued.
ReliableInOrderOnce ==
    \A i \in 1 .. Len(server.applied) : server.applied[i].id = i

\* C4: the flag receiveVisibilityChange decodes is the flag that was given to
\* transmitVisibilityChange, for both flag values and both parities.
VisibilityRoundTrips ==
    server.lastVis # << >> =>
        server.lastVis[1].visible = client.issued[server.lastVis[1].id]

\* message number k has been applied by the receiver
IsApplied(k) == \E i \in 1 .. Len(server.applied) : server.applied[i].id = k

\* message number k has been issued and is no longer in the sender's queue
IsRetired(k) ==
    /\ Len(client.issued) >= k
    /\ \A j \in 1 .. Len(client.reliableBuf) : client.reliableBuf[j].id # k

\* C3: under the fairness of SpecFair every reliable message that is issued is
\* eventually applied at the receiver and retired from the sender's queue (runs
\* that fill the receiver's log to the model's bound MaxApplied are left aside).
ReliableEventuallyDelivered ==
    \A k \in 1 .. MaxMsgs :
        [](Len(client.issued) >= k =>
               <>((IsApplied(k) /\ IsRetired(k)) \/ Len(server.applied) >= MaxApplied))

-----------------------------------------------------------------------------
(* The command ring *)

GetUserCommandNeverFails ==
    server.gotCommand # << >> => ~server.gotCommand[1].failed

-----------------------------------------------------------------------------
(* Unknown message kinds *)

\* the number of the first message of the packet whose kind is no MsgId, or 0
FirstUnknown(data) ==
    IF \E k \in 1 .. Len(data) : MsgIdOf(data[k].idByte) >= MsgIdCount
    THEN CHOOSE k \in 1 .. Len(data) :
             /\ MsgIdOf(data[k].idByte) >= MsgIdCount
             /\ \A j \in 1 .. k - 1 : MsgIdOf(data[j].idByte) < MsgIdCount
    ELSE 0

\* C8: a packet with a message of unknown kind leaves the NetClient as the
\* messages ahead of the unknown one leave it: they are applied, the unknown one
\* and whatever follows change nothing (alone, the unknown message changes
\* neither reliableRecvParity nor a ring nor lastReceivedFrame); and the next
\* packet is processed from that state like any other.
UnknownStopsPacket ==
    [][\A data \in WireData :
          (ServerReceives(Packet(0, data)) /\ FirstUnknown(data) > 0) =>
              LET k == FirstUnknown(data)
              IN  /\ server' = [OnMessage(server, SubSeq(data, 1, k - 1))
                                    EXCEPT !.warned = TRUE]
                  /\ k = 1 =>
                        /\ server'.reliableRecvParity = server.reliableRecvParity
                        /\ server'.userCommands = server.userCommands
                        /\ server'.snapshot = server.snapshot
                        /\ server'.lastReceivedFrame = server.lastReceivedFrame
                        /\ server'.applied = server.applied]_vars

\* C8: a packet has applied a visibility change and then stopped at an unknown
\* message, after an earlier packet had filled the command ring
UnknownStoppedReached ==
    /\ server.warned
    /\ server.lastVis # << >>
    /\ ~server.lastVis[1].ignore
    /\ server.userCommands.last # << >>

-----------------------------------------------------------------------------
(* The connection state *)

\* C5: state only moves Free -> Connected -> Disconnected, and Disconnected is final
StateOnlyAdvances ==
    [][/\ client.state = Free => client'.state \in {Free, Connected}
       /\ client.state = Connected => client'.state \in {Connected, Disconnected}
       /\ client.state = Disconnected => client'.state = Disconnected]_vars

-----------------------------------------------------------------------------
(* Order and duplication of frames *)

\* the commands carried by the client frames the server has received
DeliveredCommands ==
    UNION { UNION { { [frame |-> p.data[k].frame - i, val |-> p.data[k].body[i + 1]] :
                          i \in 0 .. CountOf(p.data[k].idByte) - 1 } :
                    k \in { j \in 1 .. Len(p.data) :
                                MsgIdOf(p.data[j].idByte) = ClientFrame } } :
            p \in { q \in sent : q.tag \in received } }

\* the snapshots carried by the server frames the client has received
DeliveredSnapshots ==
    { [frame |-> p.data[1].frame, val |-> p.data[1].body[1]] :
          p \in { q \in sentServer : q.tag \in receivedClient } }

\* the frames of the items lie within one ring capacity
WithinCapacity(items) == \A a, b \in items : a.frame - b.frame < Capacity

\* the ring slots that hold exactly the items, each in slot frame mod capacity
SlotsOf(items) ==
    [s \in 0 .. Capacity - 1 |->
        IF \E a \in items : a.frame % Capacity = s
        THEN << CHOOSE a \in items : a.frame % Capacity = s >>
        ELSE << >>]

\* C7: when the frames of the client frames (server frames) that have arrived lie
\* within one ring capacity, the slots of the command ring (the slots and the
\* latest frame of the snapshot ring) are determined by the set of packets that
\* arrived, whatever the order and the number of times they arrived.
RingIsOrderIndependent ==
    /\ WithinCapacity(DeliveredCommands) =>
           server.userCommands.slots = SlotsOf(DeliveredCommands)
    /\ WithinCapacity(DeliveredSnapshots) =>
           /\ client.snapshot.slots = SlotsOf(DeliveredSnapshots)
           /\ client.snapshot.latestFrame =
                  IF DeliveredSnapshots = {}
                  THEN << >>
                  ELSE << CHOOSE f \in { a.frame : a \in DeliveredSnapshots } :
                              \A a \in DeliveredSnapshots : f >= a.frame >>

\* C7: the packet of frame 0 arrived after the packets of frames 1 and 2, at the
\* server and at the client, and the rings hold the three frames
LateFramesReached ==
    /\ received = {0, 1, 2}
    /\ server.lastReceivedFrame = 0
    /\ receivedClient = {0, 1, 2}
    /\ client.lastReceivedFrame = 0
    /\ \A f \in 0 .. 2 : GetUserCommandAt(server.userCommands, f) # << >>

-----------------------------------------------------------------------------
(* Sending through the socket *)

\* the socket's current data channel is open
ChannelIsOpen ==
    /\ dataChannels # << >>
    /\ dataChannels[Len(dataChannels)] = "open"

\* C11: send hands the data to the data channel and returns true while the
\* channel is open, after its open event and before its close event; otherwise
\* it sends nothing and returns false; it never throws.
SendReportsChannelState ==
    [][SocketSend =>
          IF ChannelIsOpen
          THEN sendResult' = "true" /\ handed' = handed + 1
          ELSE sendResult' = "false" /\ handed' = handed]_vars

-----------------------------------------------------------------------------
(* Reading the snapshot ring *)

\* frame numbers a snapshot may carry
Frames == 0 .. MaxSimFrame + 1

\* frame f is populated: its slot holds a snapshot tagged f
Populated(f) ==
    /\ snapshots.buffer[f % Capacity] # << >>
    /\ snapshots.buffer[f % Capacity][1].frame = f

\* frame f lies in the valid window: latestFrame - capacity <= f <= latestFrame
InWindow(f) ==
    /\ snapshots.latestFrame # << >>
    /\ RatLeq(RatSub(snapshots.latestFrame[1], Whole(Capacity)), Whole(f))
    /\ RatLeq(Whole(f), snapshots.latestFrame[1])

\* the value of populated frame f
ValueAt(f) == snapshots.buffer[f % Capacity][1].val

\* C12: for populated frames f0 < f1 of the valid window with no populated frame
\* between them, a query q with f0 <= q <= f1 succeeds and yields
\* v(f0) + (v(f1) - v(f0)) * (q - f0) / (f1 - f0).
InterpolatesBetweenNeighbours ==
    shown # << >> =>
        \A f0, f1 \in Frames :
            (/\ f0 < f1
             /\ Populated(f0) /\ Populated(f1)
             /\ InWindow(f0) /\ InWindow(f1)
             /\ \A f \in Frames : (f0 < f /\ f < f1) => ~Populated(f)
             /\ RatLeq(Whole(f0), shown[1].query)
             /\ RatLeq(shown[1].query, Whole(f1)))
                => /\ shown[1].returns = "true"
                   /\ shown[1].out =
                          << RatAdd(Whole(ValueAt(f0)),
                                    RatDiv(RatMul(Whole(ValueAt(f1) - ValueAt(f0)),
                                                  RatSub(shown[1].query, Whole(f0))),
                                           Whole(f1 - f0))) >>

\* C13: a query below latestFrame - capacity fails, and the query latestFrame
\* succeeds once a snapshot has been written.
StaleQueryFails ==
    (shown # << >> /\ snapshots.latestFrame # << >>) =>
        /\ RatLess(shown[1].query, RatSub(snapshots.latestFrame[1], Whole(Capacity)))
               => shown[1].returns = "false"
        /\ shown[1].query = snapshots.latestFrame[1] => shown[1].returns = "true"

\* C14: getSnapshot returns false whenever no populated frame at or after the
\* query is at most latestFrame, or no populated frame at or before the query
\* lies in the valid window.
NeverExtrapolates ==
    shown # << >> =>
        ((\/ ~\E f \in Frames : Populated(f) /\ InWindow(f)
                                  /\ RatLeq(shown[1].query, Whole(f))
          \/ ~\E f \in Frames : Populated(f) /\ InWindow(f)
                                  /\ RatLeq(Whole(f), shown[1].query))
             => shown[1].returns = "false")

\* C15: getSnapshot produces output only from slots whose stored frame is the
\* frame number that selected them.
OutputFromTaggedSlots ==
    (shown # << >> /\ shown[1].returns = "true") =>
        /\ shown[1].a[1].frame = shown[1].aFrame
        /\ shown[1].b[1].frame = shown[1].bFrame

\* C16: every call of getSnapshot returns
GetSnapshotTerminates == shown # << >> => shown[1].returns # "never"

\* C17: a call of getSnapshot, successful or failed, leaves the buffer and
\* latestFrame as they were.
GetSnapshotKeepsRing ==
    [][(shown' # << >> /\ shown' # shown) => snapshots' = snapshots]_vars

\* C17: a call has succeeded by interpolation on a ring that has wrapped around,
\* and the ring still holds its newest frames
RingReadReached ==
    /\ shown # << >>
    /\ shown[1].returns = "true"
    /\ shown[1].aFrame < shown[1].bFrame
    /\ snapshots.latestFrame = << Whole(Capacity + 1) >>
    /\ \A f \in 2 .. Capacity + 1 : Populated(f)

\* C18: latestFrame never decreases
LatestFrameNeverDecreases ==
    [][(snapshots.latestFrame # << >> /\ snapshots'.latestFrame # << >>)
           => RatLeq(snapshots.latestFrame[1], snapshots'.latestFrame[1])]_vars

-----------------------------------------------------------------------------
(* The clock *)

\* C19: simTime = simFrame * simDt in every state of the clock
SimTimeIsFrameTimesDt ==
    DoubleMul(clock.simFrame, clock.simDt) = Double(clock.simTime, << >>)

\* C20: simFrame is a non-negative whole number in every state of the clock
SimFrameIsWhole == clock.simFrame.frac = << >> /\ clock.simFrame.int >= 0

\* a step of tick: the platform time moves on
IsTick == clock'.platformTime # clock.platformTime

IsStep == clockLog'.queued # << >> /\ clockLog'.queued # clockLog.queued

\* C23: step(ms) queues one forced advance: the next tick reports a render delta
\* of ms, a later tick of a paused clock without a new step reports 0, and after
\* that one tick paused has the value it had before step() was called.
StepAdvancesOnceAndRestores ==
    [][IsTick =>
          IF clockLog.queued # << >>
          THEN /\ clock'.renderDt = clockLog.queued[1].ms
               /\ clock'.paused = clockLog.queued[1].paused
          ELSE clock.paused => clock'.renderDt = 0]_vars

\* C23, amended: step(ms) pauses the clock and queues one forced advance of
\* ms * speed; a tick of a paused clock reports the queued advance, or 0 when
\* none is queued, and no tick changes paused.
StepPausesAndAdvancesOnce ==
    [][/\ IsStep => clock'.paused
       /\ IsTick =>
             /\ clock'.paused = clock.paused
             /\ clock.paused =>
                   clock'.renderDt =
                       IF clockLog.queued # << >>
                       THEN clockLog.queued[1].ms * clockLog.queued[1].speed
                       ELSE 0]_vars

\* C23: a paused clock has reported a forced advance at double speed in a tick
\* of 8 ms
ForcedAdvanceReached ==
    /\ clock.paused
    /\ clockLog.queued = << >>
    /\ clock.realDt = 8
    /\ clock.renderDt = 32

\* C29: after initialize and after every assignment to simDt,
\* renderTimeDelay >= simDt.
RenderDelayCoversSimDt ==
    /\ clock.renderTimeDelay >= clock.simDt
    /\ [][ClockSetsSimDt(MenuSimDts) =>
              clock'.renderTimeDelay >= clock'.simDt]_vars

-----------------------------------------------------------------------------
(* The server's clients *)

\* C24: clients holds exactly the joined connections whose transport has not
\* closed, and broadcast sends to each of them.
ClientsAreOpenConnections ==
    /\ \A i \in DOMAIN clients : clients[i].state # Disconnected
    /\ broadcasts # << >> =>
           \A i \in DOMAIN broadcasts[1] : broadcasts[1][i].state # Disconnected

-----------------------------------------------------------------------------
(* Sending reliable payloads *)

\* the reliable messages of a packet
ReliablesIn(p) == SelectSeq(p.data, LAMBDA m : IsReliable(MsgIdOf(m.idByte)))

\* packet p carries the head of nc's queue ahead of everything else, and no
\* other reliable payload
BeginsWithPending(nc, p) ==
    /\ ReliablesIn(p) = << p.data[1] >>
    /\ p.data[1].idByte = nc.reliableBuf[1].bits
    /\ p.data[1].id = nc.reliableBuf[1].id
    /\ ParityOf(p.data[1].idByte) = (nc.reliableBuf[1].id + 1) % 2

\* C25: while a reliable payload is pending, every outgoing packet, client frame
\* or server frame, begins with the oldest unretired payload with its parity
\* bit and holds no other reliable payload.
PendingLeadsEveryPacket ==
    [][/\ \A p \in sent' \ sent :
              client.reliableBuf # << >> => BeginsWithPending(client, p)
       /\ \A p \in sentServer' \ sentServer :
              server.reliableBuf # << >> => BeginsWithPending(server, p)]_vars

\* the tags of the packets sent so far that carry the head of the client's queue
CarrierTags ==
    { p.tag : p \in { q \in sent : /\ ReliableOf(q) # << >>
                                   /\ ReliableOf(q)[1].id = client.reliableBuf[1].id } }

\* C26: onAck(tag) retires the head of the queue exactly when a payload is
\* pending, a packet carrying it has been sent, and tag is at least the frame of
\* the first such packet; otherwise reliableBuf and reliableFrame stay as they
\* are; an acknowledgment retires at most one payload.
OnAckRetiresExactly ==
    [][\A tag \in received :
          (client' = OnAck(client, tag) /\ UNCHANGED << server, channelVars >>) =>
              LET retire == /\ client.reliableBuf # << >>
                            /\ CarrierTags # {}
                            /\ \E first \in CarrierTags :
                                   /\ \A t \in CarrierTags : first <= t
                                   /\ tag >= first
              IN  IF retire
                  THEN /\ client'.reliableBuf = Tail(client.reliableBuf)
                       /\ client'.reliableFrame = << >>
                  ELSE /\ client'.reliableBuf = client.reliableBuf
                       /\ client'.reliableFrame = client.reliableFrame]_vars

\* C26: the first payload was retired by the acknowledgment of frame 0; the
\* second, first sent with frame 1, is still pending
SecondPayloadPendingReached ==
    /\ Len(client.issued) = 2
    /\ Len(client.reliableBuf) = 1
    /\ client.reliableBuf[1].id = 2
    /\ client.reliableFrame = << 1 >>
    /\ client.lastAcknowledgedFrame = 0

-----------------------------------------------------------------------------
(* The backlog of a client frame *)

\* the client frame message of packet p
FrameOf(p) == p.data[Len(p.data)]

\* the number of frames f, f - 1, ... the ring holds without a gap, none below oldest
Contiguous(buf, f, oldest) ==
    Cardinality({ k \in 0 .. f :
                    \A j \in 0 .. k :
                        f - j >= oldest /\ GetUserCommandAt(buf, f - j) # << >> })

\* C27: the client frame built for frame f carries, newest first, the commands of
\* the frames f, f - 1, ... down to the first frame that the buffer does not hold
\* or that is below max(lastAcknowledgedFrame, f - 5, 0); the count in the upper
\* nibble of the ID byte is the number of commands.
ClientFrameCarriesBacklog ==
    [][\A p \in sent' \ sent :
          LET f == p.tag
              buf == client'.userCommands
              n == Contiguous(buf, f,
                              Max(Max(client.lastAcknowledgedFrame, f - kMaxBacklog), 0))
          IN  /\ FrameOf(p).frame = f
              /\ MsgIdOf(FrameOf(p).idByte) = ClientFrame
              /\ CountOf(FrameOf(p).idByte) = n
              /\ Len(FrameOf(p).body) = n
              /\ \A i \in 1 .. n :
                    FrameOf(p).body[i] = GetUserCommandAt(buf, f - (i - 1))[1].val]_vars

\* C27: a frame 7 was built with the 6 commands of frames 7 .. 2 while the
\* ring also held frame 1, the frame acknowledged
FullBacklogReached ==
    /\ \E p \in sent : p.tag = 7 /\ Len(FrameOf(p).body) = kMaxBacklog + 1
    /\ GetUserCommandAt(client.userCommands, 1) # << >>
    /\ client.lastAcknowledgedFrame = 1

\* C30: every client frame carries at least 1 and at most 6 commands, and the
\* count leaves the kind and the parity bit of the ID byte as they are.
ClientFrameCountInRange ==
    \A p \in sent :
        /\ Len(FrameOf(p).body) \in 1 .. kMaxBacklog + 1
        /\ CountOf(FrameOf(p).idByte) = Len(FrameOf(p).body)
        /\ FrameOf(p).idByte < 256
        /\ MsgIdOf(FrameOf(p).idByte) = ClientFrame
        /\ ParityOf(FrameOf(p).idByte) = 0

-----------------------------------------------------------------------------
(* Retiring a reliable payload *)

\* C28: the sender retires a reliable payload only if a packet that carries it
\* has been delivered to the peer, whatever frame numbers are handed to
\* transmitClientFrame, whatever is lost and whichever received packet is
\* acknowledged.
RetiredOnlyIfDelivered ==
    \A k \in 1 .. Len(client.issued) : IsRetired(k) => k \in server.delivered

====
